---- MODULE Spec2Model ----
(***************************************************************************)
(* A model of the pipocas.tv subtitle provider                             *)
(* (custom_libs/subliminal_patch/providers/pipocas.py).                    *)
(*                                                                         *)
(* The provider is sequential.  Every action below is the piece of a       *)
(* handler that runs from one HTTP request up to (not including) the next  *)
(* one; the answer of the web site is the nondeterministic input of the    *)
(* action.  Python's None is the string "None" (or NoneInt for numbers,    *)
(* NoSession for the session attribute).                                   *)
(***************************************************************************)
EXTENDS Integers, Sequences, FiniteSets, Bags, TLC

\* ----------------------------------------------------------------- bounds
MaxTags == 2
MaxLangs == 2
MaxAnchors == 2
MaxEntries == 2
MaxDlEntries == 1

\* -------------------------------------------------------------- constants
None == "None"
NoneInt == -1
NoSession == "None"
Session == "Session"

\* A URL is a host and a path.
SITE == "https://pipocas.tv"
LOGIN_URL == [host |-> SITE, path |-> "/login"]
SEARCH_URL == [host |-> SITE, path |-> "/legendas"]
DOWNLOAD_URL(id) == [host |-> SITE, path |-> <<"/legendas/download/", id>>]

\* Python truthiness of a str-or-None and of an int-or-None value.
Truthy(s) == s # None /\ s # ""
TruthyInt(n) == n # NoneInt /\ n # 0

RECURSIVE SeqsUpTo(_, _)
SeqsUpTo(S, n) ==
  IF n = 0 THEN {<<>>}
  ELSE LET shorter == SeqsUpTo(S, n - 1)
       IN  shorter \cup {Append(s, x) : s \in shorter, x \in S}

\* ------------------------------------------------------------------- HTTP
\* What a request can come to: a response that passes raise_for_status, a
\* response that raise_for_status rejects, or no response at all.
Outcomes == {"ok", "HTTPError", "RequestException"}

\* A request as the site sees it: the session it came through, and li, the
\* position in `languages` of the language it was sent for (0: none).
Request(method, url, arg, sess, li) ==
  [method |-> method, url |-> url, arg |-> arg, sess |-> sess, li |-> li]

\* A login page is a sequence of <meta> tags; only name and content matter.
Tokens == {"t1", "t2"}
MetaNames == {"csrf-token", "CSRF-TOKEN", "description"}
Tags == [name : MetaNames, content : Tokens]
LoginPages == SeqsUpTo(Tags, MaxTags)

Lower(name) == IF name = "CSRF-TOKEN" THEN "csrf-token" ELSE name

\* A search that returns the content of the last csrf-token meta tag.
TOKEN_RE_search_Bad(page) ==
  LET hits == {i \in 1..Len(page) : Lower(page[i].name) = "csrf-token"}
  IN  IF hits = {} THEN None
      ELSE page[CHOOSE i \in hits : \A j \in hits : j <= i].content

\* TOKEN_RE.search(text): the content of the first csrf-token meta tag,
\* the tag name compared without case; None when there is none.
TOKEN_RE_search(page) ==
  LET hits == {i \in 1..Len(page) : Lower(page[i].name) = "csrf-token"}
  IN  IF hits = {} THEN None
      ELSE page[CHOOSE i \in hits : \A j \in hits : i <= j].content

Credentials == {None, "", "user"}

\* -------------------------------------------------------------- languages
Language(alpha3, country) == [alpha3 |-> alpha3, country |-> country]

PIPOCAS_LANGUAGE_KEYS ==
  { Language("por", None), Language("por", "PT"), Language("por", "BR"),
    Language("eng", None), Language("eng", "US"), Language("eng", "GB"),
    Language("spa", None), Language("spa", "ES"), Language("spa", "MX") }

PIPOCAS_LANGUAGE_MAP(key) ==
  IF key.alpha3 = "por" THEN (IF key.country = "BR" THEN "brasileiro" ELSE "portugues")
  ELSE IF key.alpha3 = "eng" THEN "ingles"
  ELSE "espanhol"

get_pipocas_language(language) ==
  IF language \in PIPOCAS_LANGUAGE_KEYS THEN PIPOCAS_LANGUAGE_MAP(language)
  ELSE IF Language(language.alpha3, None) \in PIPOCAS_LANGUAGE_KEYS
       THEN PIPOCAS_LANGUAGE_MAP(Language(language.alpha3, None))
       ELSE None

\* The languages a caller may ask for: one the map holds, one mapped through
\* the fallback to (alpha3, None), and one unknown to the site.
LangPool ==
  { Language("por", "BR"), Language("por", "AO"), Language("fra", None) }

NoDup(s) == \A i, j \in 1..Len(s) : i # j => s[i] # s[j]
LanguageLists == {s \in SeqsUpTo(LangPool, MaxLangs) : NoDup(s)}

\* ----------------------------------------------------------------- videos
\* A path is a sequence of pieces; "/" and "." are pieces of their own.
RECURSIVE LastIndexOf(_, _)
LastIndexOf(s, x) ==
  IF s = <<>> THEN 0
  ELSE IF s[Len(s)] = x THEN Len(s)
  ELSE LastIndexOf(SubSeq(s, 1, Len(s) - 1), x)

\* os.path.basename
basename(path) == SubSeq(path, LastIndexOf(path, "/") + 1, Len(path))

\* os.path.splitext(base)[0]: the extension starts at the last dot, unless
\* only dots come before it.
splitext0(base) ==
  LET d == LastIndexOf(base, ".")
  IN  IF d = 0 \/ \A i \in 1..(d - 1) : base[i] = "." THEN base
      ELSE SubSeq(base, 1, d - 1)

Episode(series, season, episode, name) ==
  [type |-> "Episode", series |-> series, season |-> season,
   episode |-> episode, title |-> None, name |-> name]
Movie(title, name) ==
  [type |-> "Movie", series |-> None, season |-> NoneInt,
   episode |-> NoneInt, title |-> title, name |-> name]

NoName == <<>>
Videos ==
  { Episode("Show", 1, 2, NoName),
    Movie("", <<"d", "/", "f", ".", "mkv">>),
    Movie("", NoName) }

\* format(n, "02d")
Pad2(n) == IF n < 10 THEN <<0, n>> ELSE <<n \div 10, n % 10>>

Query(text, season, episode) == [text |-> text, season |-> season, episode |-> episode]
EmptyQuery == Query(<<>>, <<>>, <<>>)

\* _build_search_query; a name of None is the empty path here
build_search_query_name(video) ==
  IF video.name # NoName
  THEN Query(splitext0(basename(video.name)), <<>>, <<>>)
  ELSE EmptyQuery

build_search_query(video) ==
  IF video.type = "Episode"
  THEN IF Truthy(video.series) /\ TruthyInt(video.season) /\ TruthyInt(video.episode)
       THEN Query(<<video.series>>, Pad2(video.season), Pad2(video.episode))
       ELSE IF Truthy(video.series) THEN Query(<<video.series>>, <<>>, <<>>)
       ELSE build_search_query_name(video)
  ELSE IF Truthy(video.title) THEN Query(<<video.title>>, <<>>, <<>>)
       ELSE build_search_query_name(video)

\* ------------------------------------------------------------ search page
\* An <a href> of the search page: whether it carries the class
\* "text-dark no-decoration", whether the href starts with "http", its path.
Anchor(cls, abs, path) == [cls |-> cls, abs |-> abs, path |-> path]
InfoPaths == {"/legendas/info/1", "/legendas/info/2"}
AnchorPool ==
  { Anchor(TRUE, FALSE, "/legendas/info/1"),
    Anchor(FALSE, TRUE, "/legendas/info/2"),
    Anchor(TRUE, FALSE, "/perfil/9") }
SearchPages == SeqsUpTo(AnchorPool, MaxAnchors)

\* find_all("a", class_=...) with the test "/legendas/info/" in href
IsResultLink(a) == a.cls /\ a.path \in InfoPaths

\* A loop that follows every anchor of the page.
ResultLinks_NoFilter(soup) == soup

\* The anchors the loop of _search_language follows, in page order.
ResultLinks(soup) == SelectSeq(soup, IsResultLink)

\* a["href"], and the URL _search_language requests for it
href(a) == [host |-> IF a.abs THEN SITE ELSE "", path |-> a.path]
details_href(a) ==
  IF ~a.abs THEN [host |-> SITE, path |-> href(a).path] ELSE href(a)

\* ----------------------------------------------------------- details page
\* What _parse_details_page reads off a details page.
DetailsPage(sub_id, hits, rating) == [sub_id |-> sub_id, hits |-> hits, rating |-> rating]
DetailPages ==
  { DetailsPage(None, 0, 0),
    DetailsPage("a", 0, 0),
    DetailsPage("b", 300, 1),
    DetailsPage("c", 100, 2) }

Min(a, b) == IF a <= b THEN a ELSE b

\* round((rating_val + hit_factor) / 2.0) with hit_factor = min(hits / 100.0, 5.0),
\* counted in hundredths; Python rounds a half to the even neighbour.
score_stars(rating_val, hits) ==
  LET hit_factor == IF rating_val = 0 THEN 0 ELSE Min(hits, 500)
      n == 100 * rating_val + hit_factor
      q == n \div 200
      r == n % 200
  IN  IF r < 100 THEN q
      ELSE IF r > 100 THEN q + 1
      ELSE IF q % 2 = 0 THEN q ELSE q + 1

\* PipocasSubtitle.__init__, the fields the provider reads again
PipocasSubtitle(language, sub_id, hits, stars) ==
  [language |-> language, sub_id |-> sub_id, hits |-> hits, user_score |-> stars]

\* _parse_details_page on a fetched page: a subtitle, or None
parse_details_page(page, language) ==
  IF page.sub_id = None THEN None
  ELSE PipocasSubtitle(language, page.sub_id, page.hits,
                       score_stars(page.rating, page.hits))

\* all_subs.sort(key=lambda s: (s.user_score, s.hits), reverse=True)
KeyGE(a, b) ==
  \/ a.user_score > b.user_score
  \/ a.user_score = b.user_score /\ a.hits >= b.hits

\* x goes behind every element whose key is not smaller: the sort is stable.
RECURSIVE InsertDesc(_, _)
InsertDesc(sorted, x) ==
  IF sorted = <<>> THEN <<x>>
  ELSE IF KeyGE(sorted[1], x)
       THEN <<sorted[1]>> \o InsertDesc(Tail(sorted), x)
       ELSE <<x>> \o sorted

\* A list left in the order the subtitles were found.
SortDesc_Unsorted(subs) == subs

\* all_subs.sort(key=(user_score, hits), reverse=True): a stable sort.
RECURSIVE SortDesc(_)
SortDesc(subs) ==
  IF subs = <<>> THEN <<>>
  ELSE InsertDesc(SortDesc(SubSeq(subs, 1, Len(subs) - 1)), subs[Len(subs)])



\* --------------------------------------------------------------- download
\* The bytes of a response or of an archive entry: a sequence of bytes, of
\* which only these matter.
CR == "CR"
LF == "LF"
Heads ==
  { <<>>, <<"R", "a", "r", "!">>, <<"R", "a", "r">>, <<"P", "K">>,
    <<"x", "P", "K">> }
Tails == { <<>>, <<"x">>, <<"x", CR, LF>>, <<CR, "x">> }
Datas == {h \o t : h \in Heads, t \in Tails}

\* data[:n]
Slice(data, n) == SubSeq(data, 1, Min(n, Len(data)))

\* bytes.startswith
startswith(data, prefix) ==
  /\ Len(data) >= Len(prefix)
  /\ SubSeq(data, 1, Len(prefix)) = prefix

\* A test that finds "PK" anywhere in the header.
magic_Anywhere(data) ==
  LET header == Slice(data, 4)
  IN  IF startswith(header, <<"R", "a", "r", "!">>) THEN "rar"
      ELSE IF \E i \in 1..(Len(header) - 1) : header[i] = "P" /\ header[i + 1] = "K"
           THEN "zip"
      ELSE None

\* The archive format download_subtitle reads off the magic bytes.
magic(data) ==
  LET header == Slice(data, 4)
  IN  IF startswith(header, <<"R", "a", "r", "!">>) THEN "rar"
      ELSE IF startswith(header, <<"P", "K">>) THEN "zip"
      ELSE None

\* subliminal.subtitle.fix_line_ending: \r\n, then \r, become \n
RECURSIVE fix_line_ending(_)
fix_line_ending(content) ==
  IF content = <<>> THEN <<>>
  ELSE IF content[1] = CR /\ Len(content) >= 2 /\ content[2] = LF
       THEN <<LF>> \o fix_line_ending(SubSeq(content, 3, Len(content)))
  ELSE IF content[1] = CR
       THEN <<LF>> \o fix_line_ending(Tail(content))
  ELSE <<content[1]>> \o fix_line_ending(Tail(content))

\* Subtitle.normalize, on bytes whose encoding it keeps: the line endings
normalize(content) == fix_line_ending(content)

\* ---------------------------------------------------------------- archive
\* subliminal.subtitle.SUBTITLE_EXTENSIONS, without the dots
SUBTITLE_EXTENSIONS == {"srt", "sub", "smi", "txt", "ssa", "ass", "mpl"}

\* str.lower on a piece of a name
lower(piece) == IF piece = "SRT" THEN "srt" ELSE IF piece = "TXT" THEN "txt" ELSE piece

\* An entry of an archive: its name (a path), what guessit reads off its
\* base name (season, episode; NoneInt when absent), what guess_matches
\* makes of that for the video, and its bytes.
Entry(name, season, episode, matches, data) ==
  [name |-> name, season |-> season, episode |-> episode,
   matches |-> matches, data |-> data]

Names ==
  { <<"a", ".", "srt">>,
    <<"b", ".", "SRT">>,
    <<".", "a", ".", "srt">>,
    <<".", "d", "/", "c", ".", "srt">>,
    <<"a", ".", "txt">> }
Guesses == { <<1, NoneInt>>, <<1, 2>>, <<1, 3>>, <<2, 2>> }
MatchSets == { {}, {"year"}, {"title", "year"} }

\* The bytes stored under each name: every entry has bytes of its own, one
\* entry is empty.
DataOf(name) ==
  IF name = <<"a", ".", "srt">> THEN <<"a", CR, LF>>
  ELSE IF name = <<"b", ".", "SRT">> THEN <<"b">>
  ELSE IF name = <<".", "a", ".", "srt">> THEN <<"h">>
  ELSE IF name = <<".", "d", "/", "c", ".", "srt">> THEN <<>>
  ELSE <<"t">>

EntryPool ==
  { Entry(n, g[1], g[2], m, DataOf(n)) :
      n \in Names, g \in Guesses, m \in MatchSets }

UniqueNames(archive) ==
  \A i, j \in 1..Len(archive) : i # j => archive[i].name # archive[j].name
Archives == {a \in SeqsUpTo(EntryPool, MaxEntries) : UniqueNames(a)}

\* The archives a download answers with.
DlEntryPool ==
  { e \in EntryPool :
      /\ e.name \in { <<"a", ".", "srt">>, <<".", "d", "/", "c", ".", "srt">>,
                       <<"a", ".", "txt">> }
      /\ e.season = 1 /\ e.episode \in {2, 3}
      /\ e.matches \in { {}, {"title", "year"} } }
DlArchives == {a \in SeqsUpTo(DlEntryPool, MaxDlEntries) : UniqueNames(a)}

\* subliminal_patch.score.get_scores: the score of each match, by video type
get_scores(v) ==
  IF v.type = "Episode"
  THEN [m \in {"series", "year", "season", "episode"} |->
          IF m = "series" THEN 180 ELSE IF m = "year" THEN 90 ELSE 30]
  ELSE [m \in {"title", "year"} |-> IF m = "title" THEN 60 ELSE 30]

\* sum(scores.get(m, 0) for m in matches)
RECURSIVE SumScores(_, _)
SumScores(scores, matches) ==
  IF matches = {} THEN 0
  ELSE LET m == CHOOSE x \in matches : TRUE
       IN  (IF m \in DOMAIN scores THEN scores[m] ELSE 0)
           + SumScores(scores, matches \ {m})

\* name.lower().endswith(allowed_exts), SUBTITLE_EXTENSIONS without ".txt"
HasAllowedExt(name) ==
  /\ Len(name) >= 2
  /\ name[Len(name) - 1] = "."
  /\ lower(name[Len(name)]) \in SUBTITLE_EXTENSIONS \ {"txt"}

\* The entries the loop of _extract_best_from_archive does not `continue` on.
Considered(e, v) ==
  /\ ~startswith(basename(e.name), <<".">>)
  /\ HasAllowedExt(e.name)
  /\ ~ ( /\ v.type = "Episode"
         /\ e.season # NoneInt /\ e.episode # NoneInt
         /\ (e.season # v.season \/ e.episode # v.episode) )

\* A loop in which a later entry of equal score replaces the best one.
RECURSIVE BestFrom_LastWins(_, _, _, _, _)
BestFrom_LastWins(archive, v, i, best_name, best_score) ==
  IF i > Len(archive) THEN <<best_name, best_score>>
  ELSE LET e == archive[i]
           score == SumScores(get_scores(v), e.matches)
       IN  IF Considered(e, v) /\ score >= best_score
           THEN BestFrom_LastWins(archive, v, i + 1, e.name, score)
           ELSE BestFrom_LastWins(archive, v, i + 1, best_name, best_score)

\* The loop of _extract_best_from_archive from entry i on, with best_name
\* (NoName: None) and best_score so far: <<best_name, best_score>> at its end.
RECURSIVE BestFrom(_, _, _, _, _)
BestFrom(archive, v, i, best_name, best_score) ==
  IF i > Len(archive) THEN <<best_name, best_score>>
  ELSE LET e == archive[i]
           score == SumScores(get_scores(v), e.matches)
       IN  IF Considered(e, v) /\ score > best_score
           THEN BestFrom(archive, v, i + 1, e.name, score)
           ELSE BestFrom(archive, v, i + 1, best_name, best_score)

\* archive.read(name)
ArchiveRead(archive, name) ==
  (CHOOSE e \in {archive[i] : i \in 1..Len(archive)} : e.name = name).data

\* _extract_best_from_archive: [none |-> TRUE], or the bytes read
NoBytes == [none |-> TRUE, data |-> <<>>]
Bytes(data) == [none |-> FALSE, data |-> data]

extract_best_from_archive(archive, v) ==
  LET best == BestFrom(archive, v, 1, NoName, -1)
  IN  IF best[1] = NoName \/ best[2] <= 0 THEN NoBytes
      ELSE Bytes(ArchiveRead(archive, best[1]))

\* download_subtitle from the archive on: the exception raised, or the
\* content set
FromArchive(archive, v) ==
  LET content_bytes == extract_best_from_archive(archive, v)
  IN  IF content_bytes.none \/ content_bytes.data = <<>>
      THEN [raised |-> "ServiceUnavailable", content |-> <<>>]
      ELSE [raised |-> None,
            content |-> normalize(fix_line_ending(content_bytes.data))]

NoVideo == [type |-> None, series |-> None, season |-> NoneInt,
            episode |-> NoneInt, title |-> None, name |-> NoName]

VARIABLES
  alive,        \* the PipocasProvider object exists
  ctorArgs,     \* __init__: its arguments (username, password)
  username, password,
  session,      \* self.session: NoSession, or the Session() of initialize
  loggedIn,     \* the current session carries the site's login
  initResult,   \* how the most recent initialize ended
  pc,           \* where the running handler stands; "idle" between calls,
                \* "done" when it has returned or raised
  op,           \* the handler the caller called
  resume,       \* the handler initialize returns into ("None": the caller)
  raised,       \* the exception the handler ended with, or "None"
  reqs,         \* the HTTP requests of the handler, in order
  res,          \* _login: the login page fetched
  token,        \* _login: the token extracted from res
  video, languages,   \* list_subtitles: its arguments
  langIdx,      \* list_subtitles: the position of lang in languages
  all_subs,     \* list_subtitles: all_subs
  returned,     \* list_subtitles returned all_subs
  soup,         \* _search_language: the search page
  linkIdx,      \* _search_language: the position of a among the result links
  results,      \* _search_language: results
  found,        \* history: the bag of the subtitles the details pages of this
                \* call yielded, each with the position of its language
  skipped,      \* history: the languages whose search was logged and skipped
  subtitle,     \* download_subtitle: its argument
  inc,          \* reinitialize_on_error: inc
  data,         \* download_subtitle: res.content
  opened,       \* download_subtitle: the kind of archive opened, or "None"
  archive,      \* download_subtitle: the entries of the archive, in namelist order
  extracted,    \* download_subtitle: content_bytes
  content       \* subtitle.content

loginVars == <<res, token>>
listVars == <<video, languages, langIdx, all_subs, returned, soup, linkIdx,
              results, found, skipped>>
provVars == <<alive, username, password, session, loggedIn, initResult>>
dlVars == <<subtitle, inc, data, opened, archive, extracted, content>>
vars == <<provVars, ctorArgs, pc, op, resume, raised, reqs, loginVars, listVars, dlVars>>

ListCleared ==
  /\ video' = NoVideo /\ languages' = <<>> /\ langIdx' = 0
  /\ all_subs' = <<>> /\ returned' = FALSE
  /\ soup' = <<>> /\ linkIdx' = 0 /\ results' = <<>>
  /\ found' = EmptyBag /\ skipped' = {}

NoSubtitle == [video |-> NoVideo, sub_id |-> None]

DlCleared ==
  /\ subtitle' = NoSubtitle /\ inc' = 0
  /\ data' = <<>> /\ opened' = None /\ archive' = <<>>
  /\ extracted' = NoBytes /\ content' = <<>>

Init ==
  /\ alive = FALSE
  /\ ctorArgs = <<None, None>>
  /\ username = None /\ password = None
  /\ session = NoSession
  /\ loggedIn = FALSE
  /\ initResult = "never"
  /\ pc = "idle"
  /\ op = None
  /\ resume = None
  /\ raised = None
  /\ reqs = <<>>
  /\ res = <<>>
  /\ token = None
  /\ video = NoVideo /\ languages = <<>> /\ langIdx = 0
  /\ all_subs = <<>> /\ returned = FALSE
  /\ soup = <<>> /\ linkIdx = 0 /\ results = <<>>
  /\ found = EmptyBag /\ skipped = {}
  /\ subtitle = NoSubtitle /\ inc = 0
  /\ data = <<>> /\ opened = None /\ archive = <<>>
  /\ extracted = NoBytes /\ content = <<>>

\* ------------------------------------------------------------- the object
\* PipocasProvider.__init__
Construct(u, p) ==
  /\ ~alive /\ pc = "idle"
  /\ op' = "__init__"
  /\ ctorArgs' = <<u, p>>
  /\ pc' = "done"
  /\ IF (Truthy(u) \/ Truthy(p)) /\ ~(Truthy(u) /\ Truthy(p))
     THEN /\ raised' = "ConfigurationError"
          /\ UNCHANGED <<alive, username, password, session>>
     ELSE /\ alive' = TRUE
          /\ username' = u /\ password' = p
          /\ session' = NoSession
          /\ raised' = None
  /\ reqs' = <<>>
  /\ UNCHANGED <<loggedIn, initResult, resume, loginVars, listVars, dlVars>>

\* initialize with the session made before the credentials are looked at
InitializeBody_SessionFirst(ret) ==
  IF ~Truthy(username) \/ ~Truthy(password)
  THEN /\ raised' = "ConfigurationError"
       /\ initResult' = "raised"
       /\ pc' = "done"
       /\ resume' = None
       /\ session' = Session
       /\ UNCHANGED loggedIn
  ELSE /\ session' = Session
       /\ loggedIn' = FALSE
       /\ initResult' = "running"
       /\ raised' = None
       /\ pc' = "login_get"
       /\ resume' = ret

\* initialize going on with the cookies of the session it had
InitializeBody_KeepLogin(ret) ==
  IF ~Truthy(username) \/ ~Truthy(password)
  THEN /\ raised' = "ConfigurationError"
       /\ initResult' = "raised"
       /\ pc' = "done"
       /\ resume' = None
       /\ UNCHANGED <<session, loggedIn>>
  ELSE /\ session' = Session
       /\ UNCHANGED loggedIn
       /\ initResult' = "running"
       /\ raised' = None
       /\ pc' = "login_get"
       /\ resume' = ret

\* initialize, up to the first request of _login
InitializeBody(ret) ==
  IF ~Truthy(username) \/ ~Truthy(password)
  THEN /\ raised' = "ConfigurationError"
       /\ initResult' = "raised"
       /\ pc' = "done"
       /\ resume' = None
       /\ UNCHANGED <<session, loggedIn>>
  ELSE /\ session' = Session
       /\ loggedIn' = FALSE
       /\ initResult' = "running"
       /\ raised' = None
       /\ pc' = "login_get"
       /\ resume' = ret

Initialize ==
  /\ UNCHANGED ctorArgs
  /\ alive /\ pc = "idle"
  /\ op' = "initialize"
  /\ InitializeBody(None)
  /\ reqs' = <<>>
  /\ UNCHANGED <<alive, username, password, loginVars, listVars, dlVars>>

\* _login raises: initialize raises, whoever called it
LoginRaise(exc) ==
  /\ raised' = exc
  /\ initResult' = "raised"
  /\ pc' = "done"
  /\ resume' = None

\* _login: the GET of the login page and the search for the token
LoginGet(outcome, page) ==
  /\ UNCHANGED ctorArgs
  /\ pc = "login_get"
  /\ reqs' = Append(reqs, Request("GET", LOGIN_URL, None, session, 0))
  /\ IF outcome # "ok"
     THEN /\ LoginRaise(outcome)
          /\ UNCHANGED <<res, token>>
     ELSE /\ res' = page
          /\ IF TOKEN_RE_search(page) = None
             THEN /\ LoginRaise("ServiceUnavailable")
                  /\ token' = None
             ELSE /\ token' = TOKEN_RE_search(page)
                  /\ pc' = "login_post"
                  /\ UNCHANGED <<raised, initResult, resume>>
  /\ UNCHANGED <<alive, username, password, session, loggedIn, op, listVars, dlVars>>

\* _login: the POST of the login form
LoginPost(outcome, marker) ==
  /\ UNCHANGED ctorArgs
  /\ pc = "login_post"
  /\ reqs' = Append(reqs, Request("POST", LOGIN_URL, token, session, 0))
  /\ IF outcome # "ok"
     THEN LoginRaise(outcome) /\ UNCHANGED <<loggedIn, loginVars>>
     ELSE IF marker
     THEN LoginRaise("AuthenticationError") /\ UNCHANGED <<loggedIn, loginVars>>
     ELSE /\ loggedIn' = TRUE
          /\ initResult' = "ok"
          /\ raised' = None
          /\ IF resume = None
             THEN pc' = "done" /\ UNCHANGED loginVars
             ELSE pc' = resume /\ res' = <<>> /\ token' = None
          /\ resume' = None
  /\ UNCHANGED <<alive, username, password, session, op, listVars, dlVars>>

\* terminate: session.close() releases the connections of the Session and
\* leaves every attribute of the provider as it was.
Terminate ==
  /\ UNCHANGED ctorArgs
  /\ alive /\ pc = "idle"
  /\ op' = "terminate"
  /\ pc' = "done"
  /\ raised' = None
  /\ reqs' = <<>>
  /\ UNCHANGED <<provVars, resume, loginVars, listVars, dlVars>>

\* --------------------------------------------------------- list_subtitles
\* The first language from position i on that _search_language sends a
\* search for: the site knows it and the query is not empty.
RECURSIVE NextSearch(_, _, _)
NextSearch(v, langs, i) ==
  IF i > Len(langs) THEN i
  ELSE IF get_pipocas_language(langs[i]) = None THEN NextSearch(v, langs, i + 1)
  ELSE IF build_search_query(v) = EmptyQuery THEN NextSearch(v, langs, i + 1)
  ELSE i

\* The for loop of list_subtitles from language i on, up to the next search
\* request or to the sort and the return.
ListAdvance(v, langs, i, subs) ==
  LET j == NextSearch(v, langs, i)
  IN  /\ langIdx' = j
      /\ soup' = <<>> /\ linkIdx' = 0 /\ results' = <<>>
      /\ IF j > Len(langs)
         THEN /\ all_subs' = SortDesc(subs)
              /\ returned' = TRUE
              /\ pc' = "done"
         ELSE /\ all_subs' = subs
              /\ returned' = FALSE
              /\ pc' = "list_search"

ListSubtitles(v, langs) ==
  /\ UNCHANGED ctorArgs
  /\ alive /\ pc = "idle"
  /\ op' = "list_subtitles"
  /\ video' = v /\ languages' = langs
  /\ found' = EmptyBag /\ skipped' = {}
  /\ raised' = None
  /\ reqs' = <<>>
  /\ ListAdvance(v, langs, 1, <<>>)
  /\ UNCHANGED <<provVars, resume, loginVars, dlVars>>

\* except (HTTPError, RequestException, AuthenticationError, ServiceUnavailable): raise
ListRaise(exc) ==
  /\ raised' = exc
  /\ pc' = "done"
  /\ returned' = FALSE
  /\ UNCHANGED <<langIdx, all_subs, soup, linkIdx, results, skipped>>

\* the handler of "except Exception" raising again
ListSkip_Abort ==
  /\ raised' = "Exception"
  /\ pc' = "done"
  /\ returned' = FALSE
  /\ skipped' = skipped \cup {langIdx}
  /\ UNCHANGED <<langIdx, all_subs, soup, linkIdx, results>>

\* except Exception: logger.error(...), and the loop goes on
ListSkip ==
  /\ raised' = None
  /\ skipped' = skipped \cup {langIdx}
  /\ ListAdvance(video, languages, langIdx + 1, all_subs)

\* _search_language: the search request and the parse of the search page
Search(outcome, marker, fault, page) ==
  /\ UNCHANGED ctorArgs
  /\ pc = "list_search"
  /\ IF session = NoSession
     THEN \* self.session.get on None: AttributeError
          /\ ListSkip
          /\ UNCHANGED reqs
     ELSE /\ reqs' = Append(reqs,
                Request("GET", SEARCH_URL,
                        [l |-> get_pipocas_language(languages[langIdx]),
                         s |-> build_search_query(video)],
                        session, langIdx))
          /\ IF outcome # "ok" THEN ListRaise(outcome)
             ELSE IF marker THEN ListRaise("AuthenticationError")
             ELSE IF fault THEN ListSkip
             ELSE IF ResultLinks(page) = <<>>
             THEN /\ ListAdvance(video, languages, langIdx + 1, all_subs)
                  /\ UNCHANGED <<raised, skipped>>
             ELSE /\ soup' = page
                  /\ linkIdx' = 1
                  /\ results' = <<>>
                  /\ pc' = "list_details"
                  /\ UNCHANGED <<raised, langIdx, all_subs, returned, skipped>>
  /\ UNCHANGED <<provVars, op, resume, loginVars, video, languages, found, dlVars>>

\* _search_language: one turn of the loop over the result links, with
\* _parse_details_page
Details(outcome, fault, page) ==
  /\ UNCHANGED ctorArgs
  /\ pc = "list_details"
  /\ reqs' = Append(reqs,
        Request("GET", details_href(ResultLinks(soup)[linkIdx]), None,
                session, langIdx))
  /\ IF outcome # "ok" THEN ListRaise(outcome) /\ UNCHANGED found
     ELSE IF fault THEN ListSkip /\ UNCHANGED found
     ELSE LET yields == page.sub_id # None
              sub == parse_details_page(page, languages[langIdx])
              new == IF yields THEN Append(results, sub) ELSE results
          IN  /\ found' = IF yields
                          THEN found (+) SetToBag({[li |-> langIdx, sub |-> sub]})
                          ELSE found
              /\ IF linkIdx < Len(ResultLinks(soup))
                 THEN /\ linkIdx' = linkIdx + 1
                      /\ results' = new
                      /\ UNCHANGED <<raised, pc, langIdx, all_subs, returned,
                                     soup, skipped>>
                 ELSE /\ ListAdvance(video, languages, langIdx + 1, all_subs \o new)
                      /\ UNCHANGED <<raised, skipped>>
  /\ UNCHANGED <<provVars, op, resume, loginVars, video, languages, dlVars>>

\* ------------------------------------------------------ download_subtitle
\* The subtitles a caller may ask for.
Subtitles == [video : Videos, sub_id : {"a"}]

DownloadSubtitle(sub) ==
  /\ UNCHANGED ctorArgs
  /\ alive /\ pc = "idle"
  /\ op' = "download_subtitle"
  /\ subtitle' = sub
  /\ inc' = 1
  /\ pc' = "download_get"
  /\ raised' = None
  /\ reqs' = <<>>
  /\ UNCHANGED <<provVars, resume, loginVars, listVars, data, opened, archive,
                 extracted, content>>

\* download_subtitle ends with an exception
DownloadRaise(exc) ==
  /\ raised' = exc
  /\ pc' = "done"
  /\ UNCHANGED content

\* download_subtitle: the request, and all that follows it.  `opens` is
\* whether RarFile / ZipFile accepts the bytes, `arch` the archive it reads.
DownloadGet(outcome, marker, d, opens, arch) ==
  /\ UNCHANGED ctorArgs
  /\ pc = "download_get"
  /\ IF session = NoSession
     THEN \* self.session.get on None: AttributeError
          /\ DownloadRaise("AttributeError")
          /\ UNCHANGED <<reqs, data, opened, archive, extracted>>
     ELSE /\ reqs' = Append(reqs,
                Request("GET", DOWNLOAD_URL(subtitle.sub_id), None, session, 0))
          /\ IF outcome # "ok"
             THEN /\ raised' = outcome
                  /\ pc' = "download_except"
                  /\ UNCHANGED <<data, opened, archive, extracted, content>>
             ELSE IF marker
             THEN /\ DownloadRaise("AuthenticationError")
                  /\ UNCHANGED <<data, opened, archive, extracted>>
             ELSE /\ data' = d
                  /\ IF d = <<>>
                     THEN /\ DownloadRaise("ServiceUnavailable")
                          /\ UNCHANGED <<opened, archive, extracted>>
                     ELSE IF magic(d) = None
                     THEN /\ content' = normalize(fix_line_ending(d))
                          /\ raised' = None
                          /\ pc' = "done"
                          /\ UNCHANGED <<opened, archive, extracted>>
                     ELSE /\ opened' = magic(d)
                          /\ IF ~opens
                             THEN /\ DownloadRaise("BadArchive")
                                  /\ UNCHANGED <<archive, extracted>>
                             ELSE /\ archive' = arch
                                  /\ extracted' =
                                       extract_best_from_archive(arch, subtitle.video)
                                  /\ raised' = FromArchive(arch, subtitle.video).raised
                                  /\ content' = FromArchive(arch, subtitle.video).content
                                  /\ pc' = "done"
  /\ UNCHANGED <<provVars, op, resume, loginVars, listVars, subtitle, inc>>

\* @reinitialize_on_error((RequestException,), attempts=1): HTTPError is a
\* RequestException.  After the first one the provider is terminated and
\* initialized again and the download is tried once more.
ReinitializeOnError ==
  /\ UNCHANGED ctorArgs
  /\ pc = "download_except"
  /\ IF inc > 1
     THEN /\ pc' = "done"
          /\ UNCHANGED <<provVars, raised, resume, inc>>
     ELSE /\ InitializeBody("download_get")
          /\ inc' = inc + 1
          /\ UNCHANGED <<alive, username, password>>
  /\ UNCHANGED <<op, reqs, loginVars, listVars, subtitle, data, opened, archive,
                 extracted, content>>

\* ------------------------------------------------------------- the caller
\* The handler is over: its locals are gone and the caller goes on.
Return ==
  /\ pc = "done"
  /\ pc' = "idle"
  /\ op' = None
  /\ raised' = None
  /\ reqs' = <<>>
  /\ res' = <<>> /\ token' = None
  /\ ctorArgs' = <<None, None>>
  /\ ListCleared
  /\ DlCleared
  /\ UNCHANGED <<provVars, resume>>

\* The values an input ranges over: all of S where the handler reads the
\* input, and one value where it does not.
Read(isRead, S, unread) == IF isRead THEN S ELSE {unread}

\* One step of list_subtitles: the search of the language at hand, or the
\* details request of the link at hand, with whatever the site answers.
SearchStep ==
  \E o \in Outcomes, m \in BOOLEAN, f \in BOOLEAN :
    \E page \in Read(o = "ok" /\ ~m /\ ~f, SearchPages, <<>>) :
      Search(o, m, f, page)

DetailsStep ==
  \E o \in Outcomes, f \in BOOLEAN :
    \E page \in Read(o = "ok" /\ ~f, DetailPages, DetailsPage(None, 0, 0)) :
      Details(o, f, page)

Next ==
  \/ \E u \in Credentials, p \in Credentials : Construct(u, p)
  \/ Initialize
  \/ \E o \in Outcomes :
       \E page \in Read(o = "ok", LoginPages, <<>>) : LoginGet(o, page)
  \/ \E o \in Outcomes, m \in BOOLEAN : LoginPost(o, m)
  \/ Terminate
  \/ \E v \in Videos, langs \in LanguageLists : ListSubtitles(v, langs)
  \/ SearchStep
  \/ DetailsStep
  \/ \E sub \in Subtitles : DownloadSubtitle(sub)
  \/ \E o \in Outcomes, m \in BOOLEAN :
       \E d \in Read(o = "ok" /\ ~m, Datas, <<>>) :
         \E opens \in Read(magic(d) # None, BOOLEAN, FALSE) :
           \E arch \in Read(opens, DlArchives, <<>>) :
             DownloadGet(o, m, d, opens, arch)
  \/ ReinitializeOnError
  \/ Return

Spec == Init /\ [][Next]_vars

\* ------------------------------------------- the archive on its own inputs
\* download_subtitle holding an opened archive, for every archive and video.
InitArchive ==
  /\ alive = TRUE
  /\ ctorArgs = <<None, None>>
  /\ username = "user" /\ password = "user"
  /\ session = Session
  /\ loggedIn = TRUE
  /\ initResult = "ok"
  /\ pc = "extract"
  /\ op = "download_subtitle"
  /\ resume = None
  /\ raised = None
  /\ reqs = <<Request("GET", DOWNLOAD_URL("a"), None, Session, 0)>>
  /\ res = <<>>
  /\ token = None
  /\ video = NoVideo /\ languages = <<>> /\ langIdx = 0
  /\ all_subs = <<>> /\ returned = FALSE
  /\ soup = <<>> /\ linkIdx = 0 /\ results = <<>>
  /\ found = EmptyBag /\ skipped = {}
  /\ subtitle \in Subtitles /\ inc = 1
  /\ data = <<"P", "K">> /\ opened = "zip"
  /\ archive \in Archives
  /\ extracted = NoBytes /\ content = <<>>

ExtractBest ==
  /\ UNCHANGED ctorArgs
  /\ pc = "extract"
  /\ extracted' = extract_best_from_archive(archive, subtitle.video)
  /\ raised' = FromArchive(archive, subtitle.video).raised
  /\ content' = FromArchive(archive, subtitle.video).content
  /\ pc' = "done"
  /\ UNCHANGED <<provVars, op, resume, reqs, loginVars, listVars, subtitle, inc,
                 data, opened, archive>>

NextArchive == ExtractBest

SpecArchive == InitArchive /\ [][NextArchive]_vars

\* ================================================================= claims

\* ---- C1
C1_LinkCount(page) ==
  Cardinality({i \in 1..Len(page) : page[i].cls /\ page[i].path \in InfoPaths})
C1_Supported(lang) == lang.alpha3 \in {"por", "eng", "spa"}
C1_EmptyQuery(v) ==
  /\ v.type = "Episode" => v.series \in {None, ""}
  /\ v.type # "Episode" => v.title \in {None, ""}
  /\ v.name = NoName
C1_IsSearch(r) == r.url = SEARCH_URL
C1_Details(i) ==
  Cardinality({k \in 1..Len(reqs) : reqs[k].li = i /\ ~C1_IsSearch(reqs[k])})
C1_Searches(i) ==
  Cardinality({k \in 1..Len(reqs) : reqs[k].li = i /\ C1_IsSearch(reqs[k])})

\* the call is never stuck: the request at hand can be sent (here: and fail)
C1_CanGoOn ==
  ENABLED ( \/ Search("HTTPError", FALSE, FALSE, <<>>)
            \/ Details("HTTPError", FALSE, DetailsPage(None, 0, 0)) )

C1_State ==
  op = "list_subtitles" =>
    /\ \A k \in 1..Len(reqs) :
         /\ reqs[k].li \in 1..Len(languages)
         /\ C1_Supported(languages[reqs[k].li])
         /\ ~C1_EmptyQuery(video)
         /\ reqs[k].method = "GET"
         /\ \A m \in (k + 1)..Len(reqs) : reqs[k].li <= reqs[m].li
         /\ ~C1_IsSearch(reqs[k]) =>
              \E j \in 1..(k - 1) : reqs[j].li = reqs[k].li /\ C1_IsSearch(reqs[j])
    /\ \A i \in 1..Len(languages) : C1_Searches(i) <= 1
    /\ pc = "list_details" =>
         /\ linkIdx \in 1..C1_LinkCount(soup)
         /\ C1_Details(langIdx) = linkIdx - 1
    /\ pc = "list_search" => C1_Searches(langIdx) = 0 /\ C1_Details(langIdx) = 0
    /\ pc \in {"list_search", "list_details"} =>
         langIdx \in 1..Len(languages) /\ C1_CanGoOn
    /\ pc \in {"list_search", "list_details", "done"}
    /\ pc = "done" => (returned <=> raised = None)

C1_Step ==
  (op = "list_subtitles" /\ pc \in {"list_search", "list_details"}) =>
    /\ \/ reqs' = reqs
       \/ /\ Len(reqs') = Len(reqs) + 1
          /\ SubSeq(reqs', 1, Len(reqs)) = reqs
          /\ reqs'[Len(reqs')].li = langIdx
          /\ pc = "list_search" <=> C1_IsSearch(reqs'[Len(reqs')])
    /\ \/ pc' = "done"
       \/ langIdx' > langIdx
       \/ langIdx' = langIdx /\ linkIdx' > linkIdx

\* C1: list_subtitles sends its requests one at a time, language after
\* language: per language at most one search, then one details request per
\* result link of that search page and no more; nothing for a language the
\* site does not know or when the query is empty; every step of it moves on
\* through the languages and links, so it ends, with a list or an exception.
C1_Theorem == []C1_State /\ [][C1_Step]_vars

C1_Witness ==
  /\ op = "list_subtitles" /\ pc = "done" /\ returned
  /\ Len(languages) = 2
  /\ ~C1_Supported(languages[1])
  /\ Len(reqs) = 3
  /\ C1_Details(2) = 2

\* ---- C2
C2_IsLogin(r) == r.url = LOGIN_URL
C2_IsCsrf(tag) == tag.name \in {"csrf-token", "CSRF-TOKEN"}
C2_HasToken(page) == \E i \in 1..Len(page) : C2_IsCsrf(page[i])
C2_FirstToken(page, t) ==
  \E i \in 1..Len(page) :
    /\ C2_IsCsrf(page[i])
    /\ page[i].content = t
    /\ \A j \in 1..(i - 1) : ~C2_IsCsrf(page[j])

\* C2: the login requests of a handler are the GET of the login page and
\* then, only when that page was fetched and holds a token, the POST, which
\* carries the first token of that very page; when the GET fails or the page
\* holds no token there is no POST and initialize raises, ServiceUnavailable
\* for the missing token.
C2_Theorem ==
  LET L == SelectSeq(reqs, C2_IsLogin)
  IN  /\ Len(L) <= 2
      /\ Len(L) >= 1 => L[1].method = "GET"
      /\ Len(L) = 2 =>
           /\ L[2].method = "POST"
           /\ L[2].arg \in Tokens
           /\ op = "initialize" => C2_FirstToken(res, L[2].arg)
      /\ pc = "login_get" => L = <<>>
      /\ pc = "login_post" => Len(L) = 1 /\ C2_FirstToken(res, token)
      /\ (Len(L) = 1 /\ pc # "login_post") =>
           /\ pc = "done"
           /\ initResult = "raised"
           /\ ~C2_HasToken(res)
           /\ raised \in {"HTTPError", "RequestException", "ServiceUnavailable"}
           /\ res # <<>> => raised = "ServiceUnavailable"

C2_Witness ==
  /\ op = "initialize" /\ pc = "done" /\ raised = None
  /\ Len(SelectSeq(reqs, C2_IsLogin)) = 2
  /\ Len(res) = 2
  /\ C2_IsCsrf(res[1]) /\ C2_IsCsrf(res[2])
  /\ res[1].content # res[2].content

\* ---- C3
C3_HasCredentials == username \notin {None, ""} /\ password \notin {None, ""}

\* C3 as claimed: outside a running initialize, the provider holds a session
\* only if the most recent initialize completed a successful login.
C3_Original ==
  (initResult # "running" /\ session # NoSession) =>
    (initResult = "ok" /\ loggedIn)

\* C3 as amended: the provider holds a session exactly when an initialize
\* has passed the check of the credentials; that session is logged in
\* exactly when the most recent initialize completed a successful login; an
\* initialize that raises in _login leaves its new session in place, not
\* logged in; and every request goes through the session held.
C3_Theorem ==
  /\ session # NoSession <=> (C3_HasCredentials /\ initResult # "never")
  /\ loggedIn <=> initResult = "ok"
  /\ loggedIn => session # NoSession
  /\ \A k \in 1..Len(reqs) : session # NoSession /\ reqs[k].sess = session

C3_Witness ==
  /\ op = "list_subtitles" /\ reqs # <<>>
  /\ initResult = "raised" /\ session # NoSession /\ ~loggedIn

\* ---- C4
C4_IsEol(b) == b \in {CR, LF}
C4_NotEol(b) == ~C4_IsEol(b)
C4_SameButLineEndings(out, in) ==
  /\ SelectSeq(out, C4_NotEol) = SelectSeq(in, C4_NotEol)
  /\ \A i \in 1..Len(out) : out[i] # CR
  /\ Len(out) <= Len(in)
  /\ (\A i \in 1..Len(in) : in[i] # CR) => out = in
C4_IsRar(d) ==
  Len(d) >= 4 /\ d[1] = "R" /\ d[2] = "a" /\ d[3] = "r" /\ d[4] = "!"
C4_IsZip(d) == Len(d) >= 2 /\ d[1] = "P" /\ d[2] = "K"
C4_Answered == op = "download_subtitle" /\ pc = "done" /\ data # <<>>
C4_Format ==
  /\ C4_IsRar(data) => opened = "rar"
  /\ C4_IsZip(data) => opened = "zip"
  /\ (~C4_IsRar(data) /\ ~C4_IsZip(data)) =>
       /\ opened = None
       /\ raised = None
       /\ C4_SameButLineEndings(content, data)

\* C4 as claimed: the content taken from an archive is exactly the bytes of
\* the entry _extract_best_from_archive selected.
C4_Original ==
  C4_Answered =>
    /\ C4_Format
    /\ (opened # None /\ raised = None) => content = extracted.data

\* C4 as amended: the first bytes alone decide between RAR, ZIP and plain
\* data; plain data are the content but for their line endings; the content
\* taken from an archive is the selected entry's bytes but for their line
\* endings too, and when no entry is selected or the selected entry is
\* empty, ServiceUnavailable is raised.
C4_Theorem ==
  C4_Answered =>
    /\ C4_Format
    /\ opened # None =>
         /\ raised \in {None, "ServiceUnavailable", "BadArchive"}
         /\ raised = None <=> (~extracted.none /\ extracted.data # <<>>)
         /\ raised = None => C4_SameButLineEndings(content, extracted.data)
         /\ raised = "BadArchive" => archive = <<>>

C4_Witness ==
  /\ C4_Answered /\ opened = "zip" /\ raised = None
  /\ content # extracted.data
  /\ Len(archive) >= 1

\* ---- C5
C5_Unset(x) == x \in {None, ""}

\* C5: __init__ raises ConfigurationError exactly when one of username and
\* password is set and the other is not; initialize on a provider without
\* both raises ConfigurationError, creates no session and sends nothing; no
\* request is ever sent by a provider without both.
C5_Theorem ==
  /\ (op = "__init__" /\ pc = "done") =>
       /\ raised = "ConfigurationError" <=> (C5_Unset(ctorArgs[1]) # C5_Unset(ctorArgs[2]))
       /\ raised # "ConfigurationError" =>
            alive /\ raised = None /\ username = ctorArgs[1] /\ password = ctorArgs[2]
       /\ session = NoSession /\ reqs = <<>>
  /\ (op = "initialize" /\ (C5_Unset(username) \/ C5_Unset(password))) =>
       /\ pc = "done"
       /\ raised = "ConfigurationError"
       /\ session = NoSession
       /\ reqs = <<>>
  /\ reqs # <<>> => (~C5_Unset(username) /\ ~C5_Unset(password))
  /\ alive => (C5_Unset(username) <=> C5_Unset(password))

C5_Witness ==
  /\ op = "initialize" /\ pc = "done" /\ raised = "ConfigurationError"
  /\ username = "" /\ password = None

\* ---- C6
C6_Aborting == {"HTTPError", "RequestException", "AuthenticationError", "ServiceUnavailable"}
C6_Members(seq) == {seq[i] : i \in 1..Len(seq)}

\* C6: list_subtitles ends in one of two ways.  With an HTTPError, a
\* RequestException, an AuthenticationError or a ServiceUnavailable: nothing
\* is returned and the failed request, of the language then searched, is the
\* last one sent.  Or with a list: then any other exception only skipped
\* its language, every language the site knows was searched once, and the
\* subtitles found for the languages not skipped are in the list.
C6_Theorem ==
  (op = "list_subtitles" /\ pc = "done") =>
    /\ raised \in C6_Aborting \cup {None}
    /\ raised # None =>
         /\ ~returned
         /\ reqs # <<>>
         /\ reqs[Len(reqs)].li = langIdx
         /\ \A k \in 1..Len(reqs) : reqs[k].li <= langIdx
         /\ langIdx \notin skipped
    /\ raised = None =>
         /\ returned
         /\ \A i \in 1..Len(languages) :
              (C1_Supported(languages[i]) /\ ~C1_EmptyQuery(video)
                 /\ session # NoSession) => C1_Searches(i) = 1
         /\ \A f \in BagToSet(found) :
              f.li \notin skipped => f.sub \in C6_Members(all_subs)

C6_Witness ==
  /\ op = "list_subtitles" /\ pc = "done" /\ returned
  /\ skipped = {1}
  /\ C1_Searches(1) = 1 /\ C1_Searches(2) = 1
  /\ all_subs # <<>>

\* ---- C8
C8_Count(seq, x) == Cardinality({i \in 1..Len(seq) : seq[i] = x})
\* The list holds exactly the subtitles of the bag, as often as the bag does.
C8_Exactly(subs, bag) ==
  /\ \A f \in BagToSet(bag) : C8_Count(subs, f.sub) = CopiesIn(f, bag)
  /\ \A i \in 1..Len(subs) : \E f \in BagToSet(bag) : f.sub = subs[i]
C8_Kept ==
  LET keep == {f \in BagToSet(found) : f.li \notin skipped}
  IN  [f \in keep |-> CopiesIn(f, found)]
C8_Ordered(subs) ==
  \A i \in 1..(Len(subs) - 1) :
    \/ subs[i].user_score > subs[i + 1].user_score
    \/ /\ subs[i].user_score = subs[i + 1].user_score
       /\ subs[i].hits >= subs[i + 1].hits
C8_Returned == op = "list_subtitles" /\ pc = "done" /\ returned

\* C8 as claimed: the list returned holds exactly the subtitles found, one
\* for each details page that yielded a download id, in order.
C8_Original ==
  C8_Returned =>
    /\ C8_Exactly(all_subs, found)
    /\ C8_Ordered(all_subs)

\* C8 as amended: the list returned holds exactly the subtitles found for
\* the languages whose search was not skipped, one for each details page of
\* those that yielded a download id, ordered by user_score and then hits,
\* both descending.
C8_Theorem ==
  C8_Returned =>
    /\ C8_Exactly(all_subs, C8_Kept)
    /\ C8_Ordered(all_subs)

C8_Witness ==
  /\ C8_Returned
  /\ \E f \in BagToSet(found) : f.li \in skipped
  /\ Len(all_subs) = 2
  /\ all_subs[1].user_score = all_subs[2].user_score
  /\ all_subs[1].hits > all_subs[2].hits

\* ---- C7
C7_Eligible(e, v) ==
  /\ basename(e.name)[1] # "."
  /\ Len(e.name) >= 2
  /\ e.name[Len(e.name) - 1] = "."
  /\ e.name[Len(e.name)] \in {"srt", "SRT", "sub", "smi", "ssa", "ass", "mpl"}
  /\ v.type = "Episode" =>
       ~ ( /\ e.season # NoneInt /\ e.episode # NoneInt
           /\ (e.season # v.season \/ e.episode # v.episode) )
C7_Score(e, v) == SumScores(get_scores(v), e.matches)

\* C7: _extract_best_from_archive returns the bytes of the first entry, in
\* listing order, among the eligible entries of the highest score, when
\* that score is above 0, and None otherwise; on None download_subtitle
\* raises ServiceUnavailable.
C7_Theorem ==
  (op = "download_subtitle" /\ pc = "done" /\ archive # <<>>) =>
    LET v == subtitle.video
        E == {i \in 1..Len(archive) : C7_Eligible(archive[i], v)}
    IN  /\ extracted.none <=> \A i \in E : C7_Score(archive[i], v) <= 0
        /\ ~extracted.none =>
             \E i \in E :
               /\ C7_Score(archive[i], v) > 0
               /\ \A j \in E : C7_Score(archive[j], v) <= C7_Score(archive[i], v)
               /\ \A j \in E : j < i => C7_Score(archive[j], v) < C7_Score(archive[i], v)
               /\ extracted.data = archive[i].data
        /\ extracted.none => raised = "ServiceUnavailable"

C7_Witness ==
  /\ op = "download_subtitle" /\ pc = "done"
  /\ subtitle.video.type = "Episode"
  /\ Len(archive) = 2
  /\ C7_Eligible(archive[1], subtitle.video)
  /\ C7_Eligible(archive[2], subtitle.video)
  /\ C7_Score(archive[1], subtitle.video) = C7_Score(archive[2], subtitle.video)
  /\ archive[2].season = 1 /\ archive[2].episode = NoneInt
  /\ ~extracted.none
  /\ extracted.data = archive[1].data

====
